---- MODULE Spec2Model ----
(***************************************************************************)
(* Wilcoxon rank-sum (Mann-Whitney U) computation of basic_stats:          *)
(* RankSum::from_iter / RankSum::from_iter_with_counts (the two-cursor     *)
(* merge with midranks and tie accumulation), the accessors of RankSum     *)
(* and the run-length grouping iterator IterWithCounts.                    *)
(*                                                                         *)
(* Number representation.  Data values are small positive integers.  The   *)
(* f64 quantities that hold ranks and rank sums (prev_rank, rank, rank_sum,*)
(* rank_sum_x, rank_sum_y, w, the Mann-Whitney U values) are half-integers *)
(* and are stored here in units of 1/2, i.e. the model holds 2*value as an *)
(* integer; at the magnitudes explored every such f64 operation is exact.  *)
(* The f64 returned by z() is kept as a class (nan / inf / fin), a sign    *)
(* and, when finite, the exact rational value of its square.               *)
(***************************************************************************)
EXTENDS Integers, Sequences, FiniteSets, TLC

(* ---------------------------- bounds ---------------------------------- *)
\* data values are 1..MaxVal
MaxVal == 3
\* from_iter: the two raw samples hold at most MaxLen elements together
MaxLen == 4
\* from_iter_with_counts: the two inputs hold at most MaxGroups groups together
MaxGroups == 2
\* from_iter_with_counts: the count of a supplied group is in 1..MaxCount
MaxCount == 2

Values == 1..MaxVal
Counts == 1..MaxCount

RECURSIVE SeqsUpTo(_, _)
SeqsUpTo(S, n) ==
    IF n = 0 THEN {<< >>}
    ELSE LET shorter == SeqsUpTo(S, n - 1)
         IN  shorter \cup {Append(s, e) : s \in {t \in shorter : Len(t) = n - 1}, e \in S}

RawInputs == SeqsUpTo(Values, MaxLen)
GroupedInputs == SeqsUpTo(Values \X Counts, MaxGroups)

(* ------------------------- Option<(f64,u64)> --------------------------- *)
None == << >>
Some(v) == <<v>>
IsSome(o) == o # None
Unwrap(o) == o[1]

(* ------------------------ IterWithCounts ------------------------------- *)
(* An iterator is [kind, source, prev_value]: kind "raw" is an             *)
(* IterWithCounts over a sequence of values, kind "counts" is a plain      *)
(* iterator over a sequence of (value, count) pairs.                       *)
IterWithCounts_new(source) == [kind |-> "raw", source |-> source, prev_value |-> None]

VecIter(source) == [kind |-> "counts", source |-> source, prev_value |-> None]

\* variant: on a change of value the new value is not kept as prev_value
RECURSIVE IterWithCounts_loop_DropsCurrent(_, _, _)
IterWithCounts_loop_DropsCurrent(source, prev_value, count) ==
    IF source # << >> /\ IsSome(prev_value) /\ Head(source) = Unwrap(prev_value)
    THEN IterWithCounts_loop_DropsCurrent(Tail(source), prev_value, count + 1)
    ELSE IF source # << >> /\ IsSome(prev_value)
    THEN [item |-> Some(<<Unwrap(prev_value), count>>),
          source |-> Tail(source), prev_value |-> None]
    ELSE IF source # << >>
    THEN IterWithCounts_loop_DropsCurrent(Tail(source), Some(Head(source)), count)
    ELSE IF IsSome(prev_value)
    THEN [item |-> Some(<<Unwrap(prev_value), count>>),
          source |-> source, prev_value |-> None]
    ELSE [item |-> None, source |-> source, prev_value |-> None]

RECURSIVE IterWithCounts_loop(_, _, _)
IterWithCounts_loop(source, prev_value, count) ==
    IF source # << >> /\ IsSome(prev_value) /\ Head(source) = Unwrap(prev_value)
    THEN IterWithCounts_loop(Tail(source), prev_value, count + 1)
    ELSE IF source # << >> /\ IsSome(prev_value)
    THEN [item |-> Some(<<Unwrap(prev_value), count>>),
          source |-> Tail(source), prev_value |-> Some(Head(source))]
    ELSE IF source # << >>
    THEN IterWithCounts_loop(Tail(source), Some(Head(source)), count)
    ELSE IF IsSome(prev_value)
    THEN [item |-> Some(<<Unwrap(prev_value), count>>),
          source |-> source, prev_value |-> None]
    ELSE [item |-> None, source |-> source, prev_value |-> None]

IterWithCounts_next(it) ==
    LET r == IterWithCounts_loop(it.source, it.prev_value, 1)
    IN  [item |-> r.item,
         it |-> [kind |-> "raw", source |-> r.source, prev_value |-> r.prev_value]]

VecIter_next(it) ==
    IF it.source = << >>
    THEN [item |-> None, it |-> it]
    ELSE [item |-> Some(Head(it.source)),
          it |-> [it EXCEPT !.source = Tail(it.source)]]

Iter_next(it) == IF it.kind = "raw" THEN IterWithCounts_next(it) ELSE VecIter_next(it)

iter_with_counts(source) == IterWithCounts_new(source)

(* ----------------------------- f64 ------------------------------------- *)
\* `n as f64` for a u64, in units of 1/2
AsF64(n) == 2 * n
\* product of two f64 held in units of 1/2, in units of 1/2
FMul(a, b) == (a * b) \div 2
\* `a / 2.` for an f64 held in units of 1/2 (every use has an even numerator)
FHalf(a) == a \div 2

(* ---------------------------- state ------------------------------------ *)
VARIABLES
    mode,           \* "raw": from_iter, "counts": from_iter_with_counts
    in_x, in_y,     \* the two arguments of the constructor call
    itc_x, itc_y,   \* the two iterators of (value, count) pairs
    item_x_opt, item_y_opt,
    prev_item_x, prev_item_y,
    n_x, n_y,
    ties_sum_prod,
    rank_sum_x, rank_sum_y,
    prev_rank,
    pc,             \* "start", "loop", "done", "err", "panic"
    result,         \* None, or Some(RankSum), or Some(Err)
    pulls_x, pulls_y, \* number of next() calls made on itc_x / itc_y
    arms,           \* the match arms taken so far, in order
    ret,            \* the last accessor call on the RankSum: [op, args, val]
    memo,           \* an earlier accessor return the caller has kept
    inv2,           \* the locals of a second, independent constructor call
    out             \* the pairs a caller has collected from iter_with_counts(in_x)

vars == <<mode, in_x, in_y, itc_x, itc_y, item_x_opt, item_y_opt,
          prev_item_x, prev_item_y, n_x, n_y, ties_sum_prod,
          rank_sum_x, rank_sum_y, prev_rank, pc, result, pulls_x, pulls_y, arms, ret,
          memo, inv2, out>>

\* StatsError("invalid iterator argument: items not ordered properly")
Err == [error |-> "items not ordered properly"]

Init ==
    /\ mode \in {"raw", "counts"}
    /\ in_x \in (IF mode = "raw" THEN RawInputs ELSE GroupedInputs)
    /\ in_y \in (IF mode = "raw" THEN RawInputs ELSE GroupedInputs)
    /\ Len(in_x) + Len(in_y) <= (IF mode = "raw" THEN MaxLen ELSE MaxGroups)
    /\ itc_x = (IF mode = "raw" THEN iter_with_counts(in_x) ELSE VecIter(in_x))
    /\ itc_y = (IF mode = "raw" THEN iter_with_counts(in_y) ELSE VecIter(in_y))
    /\ item_x_opt = None
    /\ item_y_opt = None
    /\ prev_item_x = None
    /\ prev_item_y = None
    /\ n_x = 0
    /\ n_y = 0
    /\ ties_sum_prod = 0
    /\ rank_sum_x = 0
    /\ rank_sum_y = 0
    /\ prev_rank = 0
    /\ pc = "start"
    /\ result = None
    /\ pulls_x = 0
    /\ pulls_y = 0
    /\ arms = << >>
    /\ ret = None
    /\ memo = None
    /\ inv2 = None
    /\ out = << >>

(* ------------------------- enforce_order ------------------------------- *)
\* variant: equal successive values are accepted (<= in place of <)
enforce_order_AllowEqual(prev_item, curr_item) ==
    IF IsSome(prev_item) /\ IsSome(curr_item) /\ Unwrap(prev_item)[1] <= Unwrap(curr_item)[1]
    THEN [ok |-> TRUE, prev_item |-> curr_item]
    ELSE IF IsSome(prev_item) /\ IsSome(curr_item)
    THEN [ok |-> FALSE, prev_item |-> prev_item]
    ELSE IF IsSome(curr_item)
    THEN [ok |-> TRUE, prev_item |-> curr_item]
    ELSE [ok |-> TRUE, prev_item |-> prev_item]

enforce_order(prev_item, curr_item) ==
    IF IsSome(prev_item) /\ IsSome(curr_item) /\ Unwrap(prev_item)[1] < Unwrap(curr_item)[1]
    THEN [ok |-> TRUE, prev_item |-> curr_item]
    ELSE IF IsSome(prev_item) /\ IsSome(curr_item)
    THEN [ok |-> FALSE, prev_item |-> prev_item]
    ELSE IF IsSome(curr_item)
    THEN [ok |-> TRUE, prev_item |-> curr_item]
    ELSE [ok |-> TRUE, prev_item |-> prev_item]

(* --------------------------- rank_item --------------------------------- *)
\* variant: prev_rank advances by count_i instead of count
rank_item_AdvanceByCountI(count_i, count_other, prev_rank_, n_i, itc_i, prev_item_i, ties) ==
    LET count == count_i + count_other
        rank == prev_rank_ + FHalf(AsF64(count) + AsF64(1))
        rank_sum == FMul(AsF64(count_i), rank)
        new_prev_rank == prev_rank_ + AsF64(count_i)
        nx == Iter_next(itc_i)
        eo == enforce_order(prev_item_i, nx.item)
    IN  [ok |-> eo.ok,
         rank_sum |-> rank_sum,
         new_prev_rank |-> new_prev_rank,
         n_i |-> n_i + count_i,
         itc_i |-> nx.it,
         item_opt_i |-> nx.item,
         prev_item_i |-> eo.prev_item,
         ties_sum_prod |-> IF eo.ok THEN ties + (count - 1) * count * (count + 1) ELSE ties]

\* variant: the cohort size ignores count_other
rank_item_OwnCountOnly(count_i, count_other, prev_rank_, n_i, itc_i, prev_item_i, ties) ==
    LET count == count_i
        rank == prev_rank_ + FHalf(AsF64(count) + AsF64(1))
        rank_sum == FMul(AsF64(count_i), rank)
        new_prev_rank == prev_rank_ + AsF64(count)
        nx == Iter_next(itc_i)
        eo == enforce_order(prev_item_i, nx.item)
    IN  [ok |-> eo.ok,
         rank_sum |-> rank_sum,
         new_prev_rank |-> new_prev_rank,
         n_i |-> n_i + count_i,
         itc_i |-> nx.it,
         item_opt_i |-> nx.item,
         prev_item_i |-> eo.prev_item,
         ties_sum_prod |-> IF eo.ok THEN ties + (count - 1) * count * (count + 1) ELSE ties]

\* variant: n_i counts groups instead of observations
rank_item_CountGroups(count_i, count_other, prev_rank_, n_i, itc_i, prev_item_i, ties) ==
    LET count == count_i + count_other
        rank == prev_rank_ + FHalf(AsF64(count) + AsF64(1))
        rank_sum == FMul(AsF64(count_i), rank)
        new_prev_rank == prev_rank_ + AsF64(count)
        nx == Iter_next(itc_i)
        eo == enforce_order(prev_item_i, nx.item)
    IN  [ok |-> eo.ok,
         rank_sum |-> rank_sum,
         new_prev_rank |-> new_prev_rank,
         n_i |-> n_i + 1,
         itc_i |-> nx.it,
         item_opt_i |-> nx.item,
         prev_item_i |-> eo.prev_item,
         ties_sum_prod |-> IF eo.ok THEN ties + (count - 1) * count * (count + 1) ELSE ties]

\* variant: the tie term is count * (count + 1) * (count + 2)
rank_item_TieTermShifted(count_i, count_other, prev_rank_, n_i, itc_i, prev_item_i, ties) ==
    LET count == count_i + count_other
        rank == prev_rank_ + FHalf(AsF64(count) + AsF64(1))
        rank_sum == FMul(AsF64(count_i), rank)
        new_prev_rank == prev_rank_ + AsF64(count)
        nx == Iter_next(itc_i)
        eo == enforce_order(prev_item_i, nx.item)
    IN  [ok |-> eo.ok,
         rank_sum |-> rank_sum,
         new_prev_rank |-> new_prev_rank,
         n_i |-> n_i + count_i,
         itc_i |-> nx.it,
         item_opt_i |-> nx.item,
         prev_item_i |-> eo.prev_item,
         ties_sum_prod |-> IF eo.ok THEN ties + count * (count + 1) * (count + 2) ELSE ties]

rank_item(count_i, count_other, prev_rank_, n_i, itc_i, prev_item_i, ties) ==
    LET count == count_i + count_other
        rank == prev_rank_ + FHalf(AsF64(count) + AsF64(1))
        rank_sum == FMul(AsF64(count_i), rank)
        new_prev_rank == prev_rank_ + AsF64(count)
        nx == Iter_next(itc_i)
        eo == enforce_order(prev_item_i, nx.item)
    IN  [ok |-> eo.ok,
         rank_sum |-> rank_sum,
         new_prev_rank |-> new_prev_rank,
         n_i |-> n_i + count_i,
         itc_i |-> nx.it,
         item_opt_i |-> nx.item,
         prev_item_i |-> eo.prev_item,
         ties_sum_prod |-> IF eo.ok THEN ties + (count - 1) * count * (count + 1) ELSE ties]

(* ---------------------- from_iter_with_counts -------------------------- *)
\* variant: prev_rank starts at 1
Start_PrevRankOne ==
    /\ pc = "start"
    /\ LET fx == Iter_next(itc_x)
           fy == Iter_next(itc_y)
           ex == enforce_order(prev_item_x, fx.item)
           ey == enforce_order(prev_item_y, fy.item)
       IN  /\ itc_x' = fx.it
           /\ itc_y' = fy.it
           /\ item_x_opt' = fx.item
           /\ item_y_opt' = fy.item
           /\ pulls_x' = pulls_x + 1
           /\ pulls_y' = pulls_y + 1
           /\ prev_item_x' = ex.prev_item
           /\ prev_item_y' = IF ex.ok THEN ey.prev_item ELSE prev_item_y
           /\ IF ex.ok /\ ey.ok
              THEN pc' = "loop" /\ result' = result
              ELSE pc' = "err" /\ result' = Some(Err)
    /\ prev_rank' = AsF64(1)
    /\ UNCHANGED <<memo, inv2, out, mode, in_x, in_y, n_x, n_y, ties_sum_prod,
                   rank_sum_x, rank_sum_y, arms, ret>>

\* the initial fetch of both heads
Start ==
    /\ pc = "start"
    /\ LET fx == Iter_next(itc_x)
           fy == Iter_next(itc_y)
           ex == enforce_order(prev_item_x, fx.item)
           ey == enforce_order(prev_item_y, fy.item)
       IN  /\ itc_x' = fx.it
           /\ itc_y' = fy.it
           /\ item_x_opt' = fx.item
           /\ item_y_opt' = fy.item
           /\ pulls_x' = pulls_x + 1
           /\ pulls_y' = pulls_y + 1
           /\ prev_item_x' = ex.prev_item
           /\ prev_item_y' = IF ex.ok THEN ey.prev_item ELSE prev_item_y
           /\ IF ex.ok /\ ey.ok
              THEN pc' = "loop" /\ result' = result
              ELSE pc' = "err" /\ result' = Some(Err)
    /\ prev_rank' = AsF64(0)
    /\ UNCHANGED <<memo, inv2, out, mode, in_x, in_y, n_x, n_y, ties_sum_prod, rank_sum_x, rank_sum_y, arms, ret>>

\* a match arm that ranks the head group of X alone
ConsumeX(arm) ==
    LET r == rank_item(Unwrap(item_x_opt)[2], 0, prev_rank, n_x, itc_x, prev_item_x, ties_sum_prod)
    IN  /\ n_x' = r.n_i
        /\ itc_x' = r.itc_i
        /\ item_x_opt' = r.item_opt_i
        /\ prev_item_x' = r.prev_item_i
        /\ ties_sum_prod' = r.ties_sum_prod
        /\ pulls_x' = pulls_x + 1
        /\ arms' = Append(arms, arm)
        /\ IF r.ok
           THEN /\ rank_sum_x' = rank_sum_x + r.rank_sum
                /\ prev_rank' = r.new_prev_rank
                /\ UNCHANGED <<pc, result>>
           ELSE /\ pc' = "err"
                /\ result' = Some(Err)
                /\ UNCHANGED <<rank_sum_x, prev_rank>>
        /\ UNCHANGED <<memo, inv2, out, mode, in_x, in_y, itc_y, item_y_opt, prev_item_y, n_y, rank_sum_y, pulls_y, ret>>

\* a match arm that ranks the head group of Y alone
ConsumeY(arm) ==
    LET r == rank_item(Unwrap(item_y_opt)[2], 0, prev_rank, n_y, itc_y, prev_item_y, ties_sum_prod)
    IN  /\ n_y' = r.n_i
        /\ itc_y' = r.itc_i
        /\ item_y_opt' = r.item_opt_i
        /\ prev_item_y' = r.prev_item_i
        /\ ties_sum_prod' = r.ties_sum_prod
        /\ pulls_y' = pulls_y + 1
        /\ arms' = Append(arms, arm)
        /\ IF r.ok
           THEN /\ rank_sum_y' = rank_sum_y + r.rank_sum
                /\ prev_rank' = r.new_prev_rank
                /\ UNCHANGED <<pc, result>>
           ELSE /\ pc' = "err"
                /\ result' = Some(Err)
                /\ UNCHANGED <<rank_sum_y, prev_rank>>
        /\ UNCHANGED <<memo, inv2, out, mode, in_x, in_y, itc_x, item_x_opt, prev_item_x, n_x, rank_sum_x, pulls_x, ret>>

\* variant: the loop is left as soon as Y is exhausted
ArmXOnly_Breaks ==
    /\ pc = "loop"
    /\ IsSome(item_x_opt) /\ ~IsSome(item_y_opt)
    /\ arms' = Append(arms, "break")
    /\ IF (FHalf(FMul(AsF64(n_x + n_y), AsF64(n_x + n_y + 1))) - rank_sum_y) = rank_sum_x
       THEN /\ pc' = "done"
            /\ result' = Some([n_x |-> n_x, n_y |-> n_y, w |-> rank_sum_y,
                               ties_sum_prod |-> ties_sum_prod])
       ELSE /\ pc' = "panic"
            /\ result' = result
    /\ UNCHANGED <<memo, inv2, out, mode, in_x, in_y, itc_x, itc_y, item_x_opt, item_y_opt,
                   prev_item_x, prev_item_y, n_x, n_y, ties_sum_prod,
                   rank_sum_x, rank_sum_y, prev_rank, pulls_x, pulls_y, ret>>

\* (Some(item_x), None)
ArmXOnly ==
    /\ pc = "loop"
    /\ IsSome(item_x_opt) /\ ~IsSome(item_y_opt)
    /\ ConsumeX("x_only")

\* variant: the comparison of the guard is reversed (the larger head is taken)
ArmXLess_TakesLarger ==
    /\ pc = "loop"
    /\ IsSome(item_x_opt) /\ IsSome(item_y_opt)
    /\ Unwrap(item_x_opt)[1] > Unwrap(item_y_opt)[1]
    /\ ConsumeX("x_less")

\* (Some(item_x), Some(item_y)) if item_x.0 < item_y.0
ArmXLess ==
    /\ pc = "loop"
    /\ IsSome(item_x_opt) /\ IsSome(item_y_opt)
    /\ Unwrap(item_x_opt)[1] < Unwrap(item_y_opt)[1]
    /\ ConsumeX("x_less")

\* (None, Some(item_y))
ArmYOnly ==
    /\ pc = "loop"
    /\ ~IsSome(item_x_opt) /\ IsSome(item_y_opt)
    /\ ConsumeY("y_only")

\* (Some(item_x), Some(item_y)) if item_x.0 > item_y.0
ArmYLess ==
    /\ pc = "loop"
    /\ IsSome(item_x_opt) /\ IsSome(item_y_opt)
    /\ Unwrap(item_x_opt)[1] > Unwrap(item_y_opt)[1]
    /\ ConsumeY("y_less")

\* variant: the tied arm goes on to rank Y after the X half has failed
ArmTie_NoEarlyReturn ==
    /\ pc = "loop"
    /\ IsSome(item_x_opt) /\ IsSome(item_y_opt)
    /\ ~(Unwrap(item_x_opt)[1] < Unwrap(item_y_opt)[1])
    /\ ~(Unwrap(item_x_opt)[1] > Unwrap(item_y_opt)[1])
    /\ LET count_x == Unwrap(item_x_opt)[2]
           count_y == Unwrap(item_y_opt)[2]
           rx == rank_item(count_x, count_y, prev_rank, n_x, itc_x, prev_item_x, ties_sum_prod)
           ry == rank_item(count_y, count_x, prev_rank, n_y, itc_y, prev_item_y, rx.ties_sum_prod)
       IN  /\ n_x' = rx.n_i
           /\ itc_x' = rx.itc_i
           /\ item_x_opt' = rx.item_opt_i
           /\ prev_item_x' = rx.prev_item_i
           /\ pulls_x' = pulls_x + 1
           /\ arms' = Append(arms, "tie")
           /\ n_y' = ry.n_i
           /\ itc_y' = ry.itc_i
           /\ item_y_opt' = ry.item_opt_i
           /\ prev_item_y' = ry.prev_item_i
           /\ pulls_y' = pulls_y + 1
           /\ ties_sum_prod' = ry.ties_sum_prod
           /\ IF rx.ok /\ ry.ok
              THEN /\ rank_sum_x' = rank_sum_x + rx.rank_sum
                   /\ rank_sum_y' = rank_sum_y + ry.rank_sum
                   /\ prev_rank' = ry.new_prev_rank
                   /\ UNCHANGED <<pc, result>>
              ELSE /\ pc' = "err"
                   /\ result' = Some(Err)
                   /\ UNCHANGED <<rank_sum_x, rank_sum_y, prev_rank>>
    /\ UNCHANGED <<memo, inv2, out, mode, in_x, in_y, ret>>

\* (Some(item_x), Some(item_y)) with item_x.0 == item_y.0: two rank_item calls,
\* the second one only when the first did not fail
ArmTie ==
    /\ pc = "loop"
    /\ IsSome(item_x_opt) /\ IsSome(item_y_opt)
    /\ ~(Unwrap(item_x_opt)[1] < Unwrap(item_y_opt)[1])
    /\ ~(Unwrap(item_x_opt)[1] > Unwrap(item_y_opt)[1])
    /\ LET count_x == Unwrap(item_x_opt)[2]
           count_y == Unwrap(item_y_opt)[2]
           rx == rank_item(count_x, count_y, prev_rank, n_x, itc_x, prev_item_x, ties_sum_prod)
           ry == rank_item(count_y, count_x, prev_rank, n_y, itc_y, prev_item_y, rx.ties_sum_prod)
       IN  /\ n_x' = rx.n_i
           /\ itc_x' = rx.itc_i
           /\ item_x_opt' = rx.item_opt_i
           /\ prev_item_x' = rx.prev_item_i
           /\ pulls_x' = pulls_x + 1
           /\ arms' = Append(arms, "tie")
           /\ IF ~rx.ok
              THEN /\ pc' = "err"
                   /\ result' = Some(Err)
                   /\ ties_sum_prod' = rx.ties_sum_prod
                   /\ UNCHANGED <<n_y, itc_y, item_y_opt, prev_item_y, pulls_y,
                                  rank_sum_x, rank_sum_y, prev_rank>>
              ELSE /\ rank_sum_x' = rank_sum_x + rx.rank_sum
                   /\ n_y' = ry.n_i
                   /\ itc_y' = ry.itc_i
                   /\ item_y_opt' = ry.item_opt_i
                   /\ prev_item_y' = ry.prev_item_i
                   /\ pulls_y' = pulls_y + 1
                   /\ ties_sum_prod' = ry.ties_sum_prod
                   /\ IF ry.ok
                      THEN /\ rank_sum_y' = rank_sum_y + ry.rank_sum
                           /\ prev_rank' = ry.new_prev_rank
                           /\ UNCHANGED <<pc, result>>
                      ELSE /\ pc' = "err"
                           /\ result' = Some(Err)
                           /\ UNCHANGED <<rank_sum_y, prev_rank>>
    /\ UNCHANGED <<memo, inv2, out, mode, in_x, in_y, ret>>

\* the value compared with rank_sum_x by the debug assertion
expected_rank_sum_x(nx, ny, rsy) ==
    FHalf(FMul(AsF64(1) + AsF64(nx) + AsF64(ny), AsF64(nx) + AsF64(ny))) - rsy

\* variant: the break arm polls itc_x once more before leaving the loop
ArmBreak_PollsAgain ==
    /\ pc = "loop"
    /\ ~IsSome(item_x_opt) /\ ~IsSome(item_y_opt)
    /\ arms' = Append(arms, "break")
    /\ itc_x' = Iter_next(itc_x).it
    /\ pulls_x' = pulls_x + 1
    /\ IF (FHalf(FMul(AsF64(n_x + n_y), AsF64(n_x + n_y + 1))) - rank_sum_y) = rank_sum_x
       THEN /\ pc' = "done"
            /\ result' = Some([n_x |-> n_x, n_y |-> n_y, w |-> rank_sum_y,
                               ties_sum_prod |-> ties_sum_prod])
       ELSE /\ pc' = "panic"
            /\ result' = result
    /\ UNCHANGED <<memo, inv2, out, mode, in_x, in_y, itc_y, item_x_opt, item_y_opt,
                   prev_item_x, prev_item_y, n_x, n_y, ties_sum_prod,
                   rank_sum_x, rank_sum_y, prev_rank, pulls_y, ret>>

\* variant: the break arm matches as soon as Y is exhausted ((_, None) => break)
ArmBreak_WhenYDone ==
    /\ pc = "loop"
    /\ ~IsSome(item_y_opt)
    /\ arms' = Append(arms, "break")
    /\ IF (FHalf(FMul(AsF64(n_x + n_y), AsF64(n_x + n_y + 1))) - rank_sum_y) = rank_sum_x
       THEN /\ pc' = "done"
            /\ result' = Some([n_x |-> n_x, n_y |-> n_y, w |-> rank_sum_y,
                               ties_sum_prod |-> ties_sum_prod])
       ELSE /\ pc' = "panic"
            /\ result' = result
    /\ UNCHANGED <<memo, inv2, out, mode, in_x, in_y, itc_x, itc_y, item_x_opt, item_y_opt,
                   prev_item_x, prev_item_y, n_x, n_y, ties_sum_prod,
                   rank_sum_x, rank_sum_y, prev_rank, pulls_x, pulls_y, ret>>

\* (None, None) => break; then the rank-sum check and Ok(RankSum {..})
ArmBreak ==
    /\ pc = "loop"
    /\ ~IsSome(item_x_opt) /\ ~IsSome(item_y_opt)
    /\ arms' = Append(arms, "break")
    /\ IF expected_rank_sum_x(n_x, n_y, rank_sum_y) = rank_sum_x
       THEN /\ pc' = "done"
            /\ result' = Some([n_x |-> n_x, n_y |-> n_y, w |-> rank_sum_y,
                               ties_sum_prod |-> ties_sum_prod])
       ELSE /\ pc' = "panic"
            /\ result' = result
    /\ UNCHANGED <<memo, inv2, out, mode, in_x, in_y, itc_x, itc_y, item_x_opt, item_y_opt,
                   prev_item_x, prev_item_y, n_x, n_y, ties_sum_prod,
                   rank_sum_x, rank_sum_y, prev_rank, pulls_x, pulls_y, ret>>

(* --------------------------- from_iter --------------------------------- *)
\* from_iter wraps both raw iterators with iter_with_counts and calls
\* from_iter_with_counts: Init with mode = "raw" followed by the actions above.

(* ------------------------ RankSum accessors ---------------------------- *)
AltHyps == {"Lt", "Gt", "Ne"}

\* alpha arguments, in percent
Alphas == {-50, 0, 5, 50, 100, 150}

RankSum_n_x(self) == self.n_x

RankSum_n_y(self) == self.n_y

RankSum_w(self) == self.w

\* variant: the subtracted term is n_y (n_y - 1) / 2
mann_whitney_u_y_MinusOne(self) ==
    LET ny == AsF64(self.n_y)
    IN  self.w - FHalf(FMul(ny, ny - AsF64(1)))

\* variant: the subtracted term uses n_x
mann_whitney_u_y_UsesNx(self) ==
    LET nx == AsF64(self.n_x)
    IN  self.w - FHalf(FMul(nx, nx + AsF64(1)))

mann_whitney_u_y(self) ==
    LET ny == AsF64(self.n_y)
    IN  self.w - FHalf(FMul(ny, ny + AsF64(1)))

\* variant: w is subtracted instead of mann_whitney_u_y
mann_whitney_u_x_FromW(self) ==
    LET nx == AsF64(self.n_x)
        ny == AsF64(self.n_y)
    IN  FMul(nx, ny) - self.w

mann_whitney_u_x(self) ==
    LET nx == AsF64(self.n_x)
        ny == AsF64(self.n_y)
    IN  FMul(nx, ny) - mann_whitney_u_y(self)

\* variant: the minimum is not taken
mann_whitney_u_IsUy(self) == mann_whitney_u_y(self)

mann_whitney_u(self) ==
    IF mann_whitney_u_y(self) <= mann_whitney_u_x(self)
    THEN mann_whitney_u_y(self)
    ELSE mann_whitney_u_x(self)

\* variant: r_w returns the U statistic of the other sample
r_w_IsUy(self) == mann_whitney_u_y(self)

r_w(self) == mann_whitney_u_x(self)

(* An f64 that is not a half-integer: [cls, sgn, num, den].  cls is "nan",  *)
(* "inf" or "fin"; sgn is -1, 0 or 1; for "fin" the square of the value is  *)
(* num/den with den > 0.                                                    *)
FNaN == [cls |-> "nan", sgn |-> 0, num |-> 0, den |-> 1]
FInf(s) == [cls |-> "inf", sgn |-> s, num |-> 0, den |-> 1]
FFin(s, num, den) == [cls |-> "fin", sgn |-> IF num = 0 THEN 0 ELSE s, num |-> num, den |-> den]
FNeg(f) == [f EXCEPT !.sgn = 0 - f.sgn]
FAbs(f) == [f EXCEPT !.sgn = IF f.sgn < 0 THEN 1 ELSE f.sgn]
Sgn(i) == IF i > 0 THEN 1 ELSE IF i < 0 THEN -1 ELSE 0

\* variant: w_star is returned without the negation
z_NotNegated(self) ==
    LET nx == self.n_x
        ny == self.n_y
        N == nx + ny
        e0_w == FHalf(FMul(AsF64(ny), AsF64(nx) + AsF64(ny) + AsF64(1)))
        den12 == 12 * N * (N - 1)
        var0_num == nx * ny * ((N + 1) * N * (N - 1) - self.ties_sum_prod)
        d == self.w - e0_w
    IN  IF den12 = 0 \/ var0_num < 0 THEN FNaN
        ELSE IF var0_num = 0
        THEN (IF d = 0 THEN FNaN ELSE FInf(Sgn(d)))
        ELSE FFin(Sgn(d), d * d * 3 * N * (N - 1), var0_num)

(* z(): every quantity is kept exact.  var0_w is var0_num / den12 with      *)
(* den12 = 12 (n_x+n_y) (n_x+n_y-1); a zero den12 only occurs with          *)
(* n_x n_y = 0, where the f64 quotient 0/0 is NaN.  w - e0_w is d in units  *)
(* of 1/2.                                                                  *)
z(self) ==
    LET nx == self.n_x
        ny == self.n_y
        N == nx + ny
        e0_w == FHalf(FMul(AsF64(ny), AsF64(nx) + AsF64(ny) + AsF64(1)))
        den12 == 12 * N * (N - 1)
        var0_nan == den12 = 0
        var0_num == nx * ny * ((N + 1) * N * (N - 1) - self.ties_sum_prod)
        sqrt_nan == var0_nan \/ var0_num < 0
        d == self.w - e0_w
        w_star == IF sqrt_nan THEN FNaN
                  ELSE IF var0_num = 0
                  THEN (IF d = 0 THEN FNaN ELSE FInf(Sgn(d)))
                  ELSE FFin(Sgn(d), d * d * 3 * N * (N - 1), var0_num)
    IN  FNeg(w_star)

(* z_to_p: the standard normal cdf is kept symbolic; a p-value is           *)
(* scale * cdf(arg), or NaN when arg is NaN.                                *)
z_to_p(zv, alt_hyp) ==
    IF alt_hyp = "Lt" THEN [scale |-> 1, arg |-> zv]
    ELSE IF alt_hyp = "Gt" THEN [scale |-> 1, arg |-> FNeg(zv)]
    ELSE [scale |-> 2, arg |-> FNeg(FAbs(zv))]

RankSum_p(self, alt_hyp) == z_to_p(z(self), alt_hyp)

\* squares of the standard normal quantiles, in 1/1000: level is the cdf
\* level in 1/1000 (25 -> 1.960^2, 50 -> 1.645^2, 250 -> 0.674^2)
QuantileSq(level) ==
    IF level = 25 THEN 3841 ELSE IF level = 50 THEN 2706 ELSE 455

\* num/den <= k/1000 without leaving the 32-bit range
RatioLe(num, den, k) ==
    LET q == num \div den
        r == num % den
    IN  IF q * 1000 > k THEN FALSE ELSE r * 1000 <= (k - q * 1000) * den

\* cdf(arg) >= level/1000 for level in {25, 50, 250, 500, 1000}
CdfGe(arg, level) ==
    IF arg.cls = "nan" THEN FALSE
    ELSE IF arg.cls = "inf" THEN arg.sgn > 0
    ELSE IF level = 1000 THEN FALSE
    ELSE IF level = 500 THEN arg.sgn >= 0
    ELSE arg.sgn >= 0 \/ RatioLe(arg.num, arg.den, QuantileSq(level))

\* p >= alpha, alpha in percent
PGe(p, alpha) ==
    IF p.arg.cls = "nan" THEN FALSE
    ELSE IF alpha <= 0 THEN TRUE
    ELSE IF alpha > 100 THEN FALSE
    ELSE CdfGe(p.arg, (alpha * 10) \div p.scale)

\* p < alpha, alpha in percent: false when p is NaN
PLt(p, alpha) == p.arg.cls # "nan" /\ ~PGe(p, alpha)

HypTestResult_new(p, alpha, alt_hyp) ==
    [p |-> p, alpha |-> alpha, alt_hyp |-> alt_hyp,
     accepted |-> IF PGe(p, alpha) THEN <<"Null">> ELSE <<"Alt", alt_hyp>>]

RankSum_test(self, alt_hyp, alpha) ==
    HypTestResult_new(RankSum_p(self, alt_hyp), alpha, alt_hyp)

\* every accessor takes &self and returns a plain value (never a Result)
Returns(op, args, val) ==
    /\ pc = "done"
    /\ ret = None
    /\ ret' = Some([op |-> op, args |-> args, is_err |-> FALSE, val |-> val])
    /\ UNCHANGED <<memo, inv2, out, mode, in_x, in_y, itc_x, itc_y, item_x_opt, item_y_opt,
                   prev_item_x, prev_item_y, n_x, n_y, ties_sum_prod,
                   rank_sum_x, rank_sum_y, prev_rank, pc, result, pulls_x, pulls_y, arms>>

Call_n_x == pc = "done" /\ Returns("n_x", << >>, RankSum_n_x(Unwrap(result)))

Call_n_y == pc = "done" /\ Returns("n_y", << >>, RankSum_n_y(Unwrap(result)))

Call_w == pc = "done" /\ Returns("w", << >>, RankSum_w(Unwrap(result)))

Call_r_w == pc = "done" /\ Returns("r_w", << >>, r_w(Unwrap(result)))

Call_mann_whitney_u_y ==
    pc = "done" /\ Returns("mann_whitney_u_y", << >>, mann_whitney_u_y(Unwrap(result)))

Call_mann_whitney_u_x ==
    pc = "done" /\ Returns("mann_whitney_u_x", << >>, mann_whitney_u_x(Unwrap(result)))

Call_mann_whitney_u ==
    pc = "done" /\ Returns("mann_whitney_u", << >>, mann_whitney_u(Unwrap(result)))

\* variant: z() takes the tie term out of the RankSum it is called on
Call_z_TakesTies ==
    /\ pc = "done"
    /\ ret = None
    /\ ret' = Some([op |-> "z", args |-> << >>, is_err |-> FALSE, val |-> z(Unwrap(result))])
    /\ result' = Some([Unwrap(result) EXCEPT !.ties_sum_prod = 0])
    /\ UNCHANGED <<memo, inv2, out, mode, in_x, in_y, itc_x, itc_y, item_x_opt, item_y_opt,
                   prev_item_x, prev_item_y, n_x, n_y, ties_sum_prod,
                   rank_sum_x, rank_sum_y, prev_rank, pc, pulls_x, pulls_y, arms>>

Call_z == pc = "done" /\ Returns("z", << >>, z(Unwrap(result)))

Call_p ==
    /\ pc = "done"
    /\ \E alt_hyp \in AltHyps :
          Returns("p", <<alt_hyp>>, RankSum_p(Unwrap(result), alt_hyp))

Call_test ==
    /\ pc = "done"
    /\ \E alt_hyp \in AltHyps, alpha \in Alphas :
          Returns("test", <<alt_hyp, alpha>>, RankSum_test(Unwrap(result), alt_hyp, alpha))

\* the caller consumes the returned value
DropReturn ==
    /\ pc = "done"
    /\ IsSome(ret)
    /\ ret' = None
    /\ UNCHANGED <<memo, inv2, out, mode, in_x, in_y, itc_x, itc_y, item_x_opt, item_y_opt,
                   prev_item_x, prev_item_y, n_x, n_y, ties_sum_prod,
                   rank_sum_x, rank_sum_y, prev_rank, pc, result, pulls_x, pulls_y, arms>>

Next ==
    \/ Start
    \/ ArmXOnly
    \/ ArmXLess
    \/ ArmYOnly
    \/ ArmYLess
    \/ ArmTie
    \/ ArmBreak
    \/ Call_n_x
    \/ Call_n_y
    \/ Call_w
    \/ Call_r_w
    \/ Call_mann_whitney_u_y
    \/ Call_mann_whitney_u_x
    \/ Call_mann_whitney_u
    \/ Call_z
    \/ Call_p
    \/ Call_test
    \/ DropReturn

Spec == Init /\ [][Next]_vars

\* the constructor alone: the sequential steps of from_iter_with_counts
MergeNext ==
    \/ Start
    \/ ArmXOnly
    \/ ArmXLess
    \/ ArmYOnly
    \/ ArmYLess
    \/ ArmTie
    \/ ArmBreak

\* a running call always takes its next step
FairSpec == Init /\ [][MergeNext]_vars /\ WF_vars(MergeNext)

(* --------------- a caller draining iter_with_counts -------------------- *)
IterInit ==
    /\ mode = "raw"
    /\ in_x \in RawInputs
    /\ in_y = << >>
    /\ itc_x = iter_with_counts(in_x)
    /\ itc_y = iter_with_counts(in_y)
    /\ item_x_opt = None
    /\ item_y_opt = None
    /\ prev_item_x = None
    /\ prev_item_y = None
    /\ n_x = 0
    /\ n_y = 0
    /\ ties_sum_prod = 0
    /\ rank_sum_x = 0
    /\ rank_sum_y = 0
    /\ prev_rank = 0
    /\ pc = "iter"
    /\ result = None
    /\ pulls_x = 0
    /\ pulls_y = 0
    /\ arms = << >>
    /\ ret = None
    /\ memo = None
    /\ inv2 = None
    /\ out = << >>

\* one call of next() by the caller; the pair, if any, is pushed to out
IterPull ==
    /\ pc = "iter"
    /\ LET r == IterWithCounts_next(itc_x)
       IN  /\ itc_x' = r.it
           /\ item_x_opt' = r.item
           /\ pulls_x' = pulls_x + 1
           /\ IF IsSome(r.item)
              THEN out' = Append(out, Unwrap(r.item)) /\ pc' = pc
              ELSE out' = out /\ pc' = "iter_end"
    /\ UNCHANGED <<memo, inv2, mode, in_x, in_y, itc_y, item_y_opt, prev_item_x, prev_item_y,
                   n_x, n_y, ties_sum_prod, rank_sum_x, rank_sum_y, prev_rank, result,
                   pulls_y, arms, ret>>

IterNext == IterPull

IterSpec == IterInit /\ [][IterNext]_vars

(* ------------- two constructor calls running side by side -------------- *)
(* The locals of one call of from_iter_with_counts as a record, and the     *)
(* call's steps as functions of that record.                                *)
merge_entry(m, x, y) ==
    [itc_x |-> IF m = "raw" THEN iter_with_counts(x) ELSE VecIter(x),
     itc_y |-> IF m = "raw" THEN iter_with_counts(y) ELSE VecIter(y),
     item_x_opt |-> None, item_y_opt |-> None,
     prev_item_x |-> None, prev_item_y |-> None,
     n_x |-> 0, n_y |-> 0, ties_sum_prod |-> 0,
     rank_sum_x |-> 0, rank_sum_y |-> 0, prev_rank |-> 0,
     pc |-> "start", result |-> None]

merge_start(s) ==
    LET fx == Iter_next(s.itc_x)
        fy == Iter_next(s.itc_y)
        ex == enforce_order(s.prev_item_x, fx.item)
        ey == enforce_order(s.prev_item_y, fy.item)
    IN  [s EXCEPT !.itc_x = fx.it, !.itc_y = fy.it,
                  !.item_x_opt = fx.item, !.item_y_opt = fy.item,
                  !.prev_item_x = ex.prev_item,
                  !.prev_item_y = IF ex.ok THEN ey.prev_item ELSE @,
                  !.prev_rank = AsF64(0),
                  !.pc = IF ex.ok /\ ey.ok THEN "loop" ELSE "err",
                  !.result = IF ex.ok /\ ey.ok THEN @ ELSE Some(Err)]

merge_rank_x(s) ==
    LET r == rank_item(Unwrap(s.item_x_opt)[2], 0, s.prev_rank, s.n_x, s.itc_x,
                       s.prev_item_x, s.ties_sum_prod)
    IN  [s EXCEPT !.n_x = r.n_i, !.itc_x = r.itc_i, !.item_x_opt = r.item_opt_i,
                  !.prev_item_x = r.prev_item_i, !.ties_sum_prod = r.ties_sum_prod,
                  !.rank_sum_x = IF r.ok THEN @ + r.rank_sum ELSE @,
                  !.prev_rank = IF r.ok THEN r.new_prev_rank ELSE @,
                  !.pc = IF r.ok THEN @ ELSE "err",
                  !.result = IF r.ok THEN @ ELSE Some(Err)]

merge_rank_y(s) ==
    LET r == rank_item(Unwrap(s.item_y_opt)[2], 0, s.prev_rank, s.n_y, s.itc_y,
                       s.prev_item_y, s.ties_sum_prod)
    IN  [s EXCEPT !.n_y = r.n_i, !.itc_y = r.itc_i, !.item_y_opt = r.item_opt_i,
                  !.prev_item_y = r.prev_item_i, !.ties_sum_prod = r.ties_sum_prod,
                  !.rank_sum_y = IF r.ok THEN @ + r.rank_sum ELSE @,
                  !.prev_rank = IF r.ok THEN r.new_prev_rank ELSE @,
                  !.pc = IF r.ok THEN @ ELSE "err",
                  !.result = IF r.ok THEN @ ELSE Some(Err)]

merge_rank_tie(s) ==
    LET count_x == Unwrap(s.item_x_opt)[2]
        count_y == Unwrap(s.item_y_opt)[2]
        rx == rank_item(count_x, count_y, s.prev_rank, s.n_x, s.itc_x,
                        s.prev_item_x, s.ties_sum_prod)
        ry == rank_item(count_y, count_x, s.prev_rank, s.n_y, s.itc_y,
                        s.prev_item_y, rx.ties_sum_prod)
        sx == [s EXCEPT !.n_x = rx.n_i, !.itc_x = rx.itc_i, !.item_x_opt = rx.item_opt_i,
                        !.prev_item_x = rx.prev_item_i, !.ties_sum_prod = rx.ties_sum_prod]
    IN  IF ~rx.ok
        THEN [sx EXCEPT !.pc = "err", !.result = Some(Err)]
        ELSE [sx EXCEPT !.rank_sum_x = @ + rx.rank_sum,
                        !.n_y = ry.n_i, !.itc_y = ry.itc_i, !.item_y_opt = ry.item_opt_i,
                        !.prev_item_y = ry.prev_item_i, !.ties_sum_prod = ry.ties_sum_prod,
                        !.rank_sum_y = IF ry.ok THEN @ + ry.rank_sum ELSE @,
                        !.prev_rank = IF ry.ok THEN ry.new_prev_rank ELSE @,
                        !.pc = IF ry.ok THEN @ ELSE "err",
                        !.result = IF ry.ok THEN @ ELSE Some(Err)]

merge_break(s) ==
    IF expected_rank_sum_x(s.n_x, s.n_y, s.rank_sum_y) = s.rank_sum_x
    THEN [s EXCEPT !.pc = "done",
                   !.result = Some([n_x |-> s.n_x, n_y |-> s.n_y, w |-> s.rank_sum_y,
                                    ties_sum_prod |-> s.ties_sum_prod])]
    ELSE [s EXCEPT !.pc = "panic"]

\* one step of a call: the initial fetch, or one pass of the loop
merge_step(s) ==
    IF s.pc = "start" THEN merge_start(s)
    ELSE IF s.pc # "loop" THEN s
    ELSE IF IsSome(s.item_x_opt) /\ ~IsSome(s.item_y_opt) THEN merge_rank_x(s)
    ELSE IF ~IsSome(s.item_x_opt) /\ IsSome(s.item_y_opt) THEN merge_rank_y(s)
    ELSE IF ~IsSome(s.item_x_opt) THEN merge_break(s)
    ELSE IF Unwrap(s.item_x_opt)[1] < Unwrap(s.item_y_opt)[1] THEN merge_rank_x(s)
    ELSE IF Unwrap(s.item_x_opt)[1] > Unwrap(s.item_y_opt)[1] THEN merge_rank_y(s)
    ELSE merge_rank_tie(s)

\* a call run from s to its end with nothing in between
RECURSIVE merge_run(_)
merge_run(s) == IF s.pc \in {"start", "loop"} THEN merge_run(merge_step(s)) ELSE s

\* tests/wilcoxon_errors.rs, test_from_slices
Bad == <<1, 2, 1>>

\* the sample pairs of the second call
OtherPairs == {<<<<1>>, <<2>>>>, <<<<2, 2>>, <<2, 2, 2, 3, 3>>>>, <<Bad, << >>>>}

ConcInit ==
    /\ mode \in {"raw", "counts"}
    /\ in_x \in (IF mode = "raw" THEN RawInputs ELSE GroupedInputs)
    /\ in_y \in (IF mode = "raw" THEN RawInputs ELSE GroupedInputs)
    /\ Len(in_x) + Len(in_y) <= (IF mode = "raw" THEN MaxLen ELSE MaxGroups)
    /\ itc_x = (IF mode = "raw" THEN iter_with_counts(in_x) ELSE VecIter(in_x))
    /\ itc_y = (IF mode = "raw" THEN iter_with_counts(in_y) ELSE VecIter(in_y))
    /\ item_x_opt = None
    /\ item_y_opt = None
    /\ prev_item_x = None
    /\ prev_item_y = None
    /\ n_x = 0
    /\ n_y = 0
    /\ ties_sum_prod = 0
    /\ rank_sum_x = 0
    /\ rank_sum_y = 0
    /\ prev_rank = 0
    /\ pc = "start"
    /\ result = None
    /\ pulls_x = 0
    /\ pulls_y = 0
    /\ arms = << >>
    /\ ret = None
    /\ memo = None
    /\ inv2 \in {[args |-> p, s |-> merge_entry("raw", p[1], p[2])] : p \in OtherPairs}
    /\ out = << >>

\* variant: prev_rank is one cell that both calls read and write
Step2_SharedPrevRank ==
    /\ inv2.s.pc \in {"start", "loop"}
    /\ LET t == merge_step([inv2.s EXCEPT !.prev_rank = prev_rank])
       IN  /\ inv2' = [inv2 EXCEPT !.s = t]
           /\ prev_rank' = t.prev_rank
    /\ UNCHANGED <<memo, out, mode, in_x, in_y, itc_x, itc_y, item_x_opt, item_y_opt,
                   prev_item_x, prev_item_y, n_x, n_y, ties_sum_prod,
                   rank_sum_x, rank_sum_y, pc, result, pulls_x, pulls_y, arms, ret>>

\* one step of the second call, on its own locals
Step2 ==
    /\ inv2.s.pc \in {"start", "loop"}
    /\ inv2' = [inv2 EXCEPT !.s = merge_step(@)]
    /\ UNCHANGED <<memo, out, mode, in_x, in_y, itc_x, itc_y, item_x_opt, item_y_opt,
                   prev_item_x, prev_item_y, n_x, n_y, ties_sum_prod,
                   rank_sum_x, rank_sum_y, prev_rank, pc, result, pulls_x, pulls_y, arms, ret>>

ConcNext == MergeNext \/ Step2

ConcSpec == ConcInit /\ [][ConcNext]_vars

(* ------------- a second RankSum from a shifted sample ------------------ *)
\* the largest offset added to a sample
MaxShift == 2

Shifted(sample, d) == [i \in 1..Len(sample) |-> sample[i] + d]

ShiftInit ==
    /\ mode = "raw"
    /\ in_x \in {s \in RawInputs : \A i \in 1..(Len(s) - 1) : s[i] <= s[i + 1]}
    /\ in_y \in {s \in RawInputs : \A i \in 1..(Len(s) - 1) : s[i] <= s[i + 1]}
    /\ Len(in_x) + Len(in_y) <= MaxLen
    /\ itc_x = iter_with_counts(in_x)
    /\ itc_y = iter_with_counts(in_y)
    /\ item_x_opt = None
    /\ item_y_opt = None
    /\ prev_item_x = None
    /\ prev_item_y = None
    /\ n_x = 0
    /\ n_y = 0
    /\ ties_sum_prod = 0
    /\ rank_sum_x = 0
    /\ rank_sum_y = 0
    /\ prev_rank = 0
    /\ pc = "start"
    /\ result = None
    /\ pulls_x = 0
    /\ pulls_y = 0
    /\ arms = << >>
    /\ ret = None
    /\ memo = None
    /\ inv2 = None
    /\ out = << >>

\* the caller keeps the RankSum it has and calls from_iter on (x, y)
FromIterAgain(side, d, x, y) ==
    /\ pc = "done"
    /\ memo = None
    /\ memo' = Some([op |-> "from_iter", args |-> <<side, d>>, is_err |-> FALSE,
                     val |-> Unwrap(result)])
    /\ mode' = "raw"
    /\ in_x' = x
    /\ in_y' = y
    /\ itc_x' = iter_with_counts(x)
    /\ itc_y' = iter_with_counts(y)
    /\ item_x_opt' = None
    /\ item_y_opt' = None
    /\ prev_item_x' = None
    /\ prev_item_y' = None
    /\ n_x' = 0
    /\ n_y' = 0
    /\ ties_sum_prod' = 0
    /\ rank_sum_x' = 0
    /\ rank_sum_y' = 0
    /\ prev_rank' = 0
    /\ pc' = "start"
    /\ result' = None
    /\ pulls_x' = 0
    /\ pulls_y' = 0
    /\ arms' = << >>
    /\ UNCHANGED <<ret, inv2, out>>

\* sample_y.into_iter().map(|v| v + d), then from_iter on the shifted pair
ShiftY == \E d \in 1..MaxShift : FromIterAgain("y", d, in_x, Shifted(in_y, d))

\* the same with the offset added to sample_x
ShiftX == \E d \in 1..MaxShift : FromIterAgain("x", d, Shifted(in_x, d), in_y)

ShiftNext ==
    \/ Start
    \/ ArmXOnly
    \/ ArmXLess
    \/ ArmYOnly
    \/ ArmYLess
    \/ ArmTie
    \/ ArmBreak
    \/ ShiftY
    \/ ShiftX

ShiftSpec == ShiftInit /\ [][ShiftNext]_vars

(* ------------- a second RankSum with the samples swapped --------------- *)
\* from_iter(y, x) after from_iter(x, y)
SwapCall == FromIterAgain("swap", 0, in_y, in_x)

SwapNext == MergeNext \/ SwapCall

SwapSpec == ShiftInit /\ [][SwapNext]_vars

(* ------------------- the samples of the repository's tests ------------- *)
\* tests/wilcoxon_errors.rs, test_z
S0 == << >>
S11 == <<1>>
S12 == <<2>>
S22 == <<2, 2>>
S42 == <<2, 2, 2, 2>>
S52 == <<2, 2, 2, 2, 2>>
Smx == <<2, 2, 2, 3, 3>>

\* book_data(), in hundredths: only the order of the values enters the ranks
BookX == <<73, 80, 83, 104, 138, 145, 146, 164, 189, 191>>
BookY == <<74, 88, 90, 115, 121>>

Scenarios ==
    {<<S52, Smx>>, <<S42, Smx>>, <<S22, Smx>>, <<S11, S12>>, <<S11, S11>>,
     <<S0, S11>>, <<BookX, BookY>>}

ScenarioInit ==
    /\ mode = "raw"
    /\ \E sc \in Scenarios : in_x = sc[1] /\ in_y = sc[2]
    /\ itc_x = iter_with_counts(in_x)
    /\ itc_y = iter_with_counts(in_y)
    /\ item_x_opt = None
    /\ item_y_opt = None
    /\ prev_item_x = None
    /\ prev_item_y = None
    /\ n_x = 0
    /\ n_y = 0
    /\ ties_sum_prod = 0
    /\ rank_sum_x = 0
    /\ rank_sum_y = 0
    /\ prev_rank = 0
    /\ pc = "start"
    /\ result = None
    /\ pulls_x = 0
    /\ pulls_y = 0
    /\ arms = << >>
    /\ ret = None
    /\ memo = None
    /\ inv2 = None
    /\ out = << >>

\* the caller binds the returned value to a local and goes on calling
Remember ==
    /\ pc = "done"
    /\ IsSome(ret)
    /\ memo' = ret
    /\ ret' = None
    /\ UNCHANGED <<inv2, out, mode, in_x, in_y, itc_x, itc_y, item_x_opt, item_y_opt,
                   prev_item_x, prev_item_y, n_x, n_y, ties_sum_prod,
                   rank_sum_x, rank_sum_y, prev_rank, pc, result, pulls_x, pulls_y, arms>>

ScenarioNext == Next \/ Remember

ScenarioSpec == ScenarioInit /\ [][ScenarioNext]_vars

(* ===================== reference definitions =========================== *)
(* Quantities computed directly from the constructor arguments, without     *)
(* the merge: the combined multiset, midranks, multiplicities.              *)
RECURSIVE Expand(_)
Expand(g) ==
    IF g = << >> THEN << >>
    ELSE [i \in 1..Head(g)[2] |-> Head(g)[1]] \o Expand(Tail(g))

SampleX == IF mode = "raw" THEN in_x ELSE Expand(in_x)
SampleY == IF mode = "raw" THEN in_y ELSE Expand(in_y)

NonDecreasing(s) == \A i \in 1..(Len(s) - 1) : s[i] <= s[i + 1]

\* some group's value is not strictly greater than the value of the group before it
GroupViolation(g) == \E i \in 1..(Len(g) - 1) : ~(g[i][1] < g[i + 1][1])

RawViolation(s) == \E i \in 1..(Len(s) - 1) : s[i] > s[i + 1]

InputViolation(inp) == IF mode = "raw" THEN RawViolation(inp) ELSE GroupViolation(inp)

ValidInput == ~InputViolation(in_x) /\ ~InputViolation(in_y)

CountLess(s, v) == Cardinality({i \in DOMAIN s : s[i] < v})
CountEq(s, v) == Cardinality({i \in DOMAIN s : s[i] = v})

\* twice the midrank of value v in the combined sample
Midrank2(v) ==
    2 * (CountLess(SampleX, v) + CountLess(SampleY, v))
      + CountEq(SampleX, v) + CountEq(SampleY, v) + 1

RECURSIVE SumMidrank2(_)
SumMidrank2(s) == IF s = << >> THEN 0 ELSE Midrank2(Head(s)) + SumMidrank2(Tail(s))

Multiplicity(v) == CountEq(SampleX, v) + CountEq(SampleY, v)

RECURSIVE SumTies(_)
SumTies(vs) ==
    IF vs = {} THEN 0
    ELSE LET v == CHOOSE u \in vs : TRUE
             m == Multiplicity(v)
         IN  (m - 1) * m * (m + 1) + SumTies(vs \ {v})

RefTies == SumTies({SampleX[i] : i \in DOMAIN SampleX} \cup {SampleY[i] : i \in DOMAIN SampleY})

TotalN == Len(SampleX) + Len(SampleY)

Constructed == pc = "done" /\ IsSome(result) /\ Unwrap(result) # Err

RS == Unwrap(result)

(* ============================ claims =================================== *)

\* C1: for non-decreasing raw samples X and Y, from_iter does not fail and
\* w() is the sum over the elements of Y of their midranks in the combined
\* sorted multiset (both sides in units of 1/2).
C1_WIsMidrankSumOfY ==
    (mode = "raw" /\ NonDecreasing(in_x) /\ NonDecreasing(in_y)) =>
        /\ pc \notin {"err", "panic"}
        /\ pc = "done" => RankSum_w(RS) = SumMidrank2(SampleY)

\* a construction from raw samples with a value tied across X and Y, a tie
\* inside Y and a larger Y value after the tie
C1_Witness ==
    /\ pc = "done" /\ mode = "raw"
    /\ \E i \in DOMAIN in_x, j \in DOMAIN in_y : in_x[i] = in_y[j] /\ j < Len(in_y) /\ in_y[j] < in_y[Len(in_y)]
    /\ RankSum_w(RS) = SumMidrank2(SampleY)

\* C2: on valid input the debug assertion "rank_sum_x check" never fails: at
\* the end of the loop rank_sum_x + rank_sum_y = (1 + n_x + n_y)(n_x + n_y)/2,
\* and the same holds with rank_sum_x recomputed from the combined sample.
C2_RankSumComplementarity ==
    ValidInput =>
        /\ pc # "panic"
        /\ pc = "done" =>
              /\ rank_sum_x + rank_sum_y = (1 + n_x + n_y) * (n_x + n_y)
              /\ SumMidrank2(SampleX) + RankSum_w(RS)
                    = (1 + RankSum_n_x(RS) + RankSum_n_y(RS)) * (RankSum_n_x(RS) + RankSum_n_y(RS))

\* a finished merge of grouped input with a tied cohort and counts above 1
C2_Witness ==
    /\ pc = "done" /\ mode = "counts"
    /\ \E k \in DOMAIN arms : arms[k] = "tie"
    /\ n_x >= 2 /\ n_y >= 2
    /\ rank_sum_x + rank_sum_y = (1 + n_x + n_y) * (n_x + n_y)

\* C3 (as stated): after a successful construction ties_sum_prod is the sum
\* over the distinct combined values, with multiplicity m, of (m-1) m (m+1),
\* each value counted once.
C3_TiesOncePerValue ==
    Constructed => RS.ties_sum_prod = RefTies

\* C4: when some group of either input does not have a value strictly
\* greater than the group before it, the construction never returns a
\* RankSum: the only result it can produce is the ordering error.
C4_OrderingRejected ==
    (InputViolation(in_x) \/ InputViolation(in_y)) =>
        /\ pc \in {"start", "loop", "err"}
        /\ result \in {None, Some(Err)}
        /\ pc = "err" <=> result = Some(Err)

\* the error returned for a violation at the tail of Y made of two equal
\* successive group values, X being empty
C4_Witness ==
    /\ pc = "err" /\ result = Some(Err)
    /\ mode = "counts" /\ in_x = << >>
    /\ Len(in_y) = 2 /\ in_y[1][1] = in_y[2][1]

\* C5: from raw non-decreasing sequences the construction does not fail and
\* n_x(), n_y() are the numbers of raw elements of X and Y.
C5_SizesAreRawLengths ==
    (mode = "raw" /\ NonDecreasing(in_x) /\ NonDecreasing(in_y)) =>
        /\ pc \notin {"err", "panic"}
        /\ pc = "done" =>
              /\ IsSome(result) /\ RS # Err
              /\ RankSum_n_x(RS) = Len(in_x)
              /\ RankSum_n_y(RS) = Len(in_y)

\* a construction from an empty X and a Y with a repeated value
C5_Witness ==
    /\ Constructed /\ mode = "raw"
    /\ in_x = << >> /\ Len(in_y) >= 2 /\ in_y[1] = in_y[2]
    /\ RankSum_n_x(RS) = 0 /\ RankSum_n_y(RS) = Len(in_y)

\* item is a group that enforce_order rejects after prev
Rejected(prev, item) == IsSome(prev) /\ IsSome(item) /\ ~(Unwrap(prev)[1] < Unwrap(item)[1])

\* C6: the step that detects an ordering violation returns the error and no
\* RankSum, and the offending group is the last thing pulled in that step
\* (when X offends, Y is not pulled); nothing is pulled afterwards.
C6_ErrorAtOnce ==
    [][/\ (pc # "err" /\ pc' = "err") =>
            /\ result' = Some(Err)
            /\ \/ /\ pulls_x' = pulls_x + 1 /\ pulls_y' = pulls_y
                  /\ Rejected(prev_item_x, item_x_opt')
               \/ /\ pulls_y' = pulls_y + 1
                  /\ Rejected(prev_item_y, item_y_opt')
                  /\ \/ pulls_x' = pulls_x
                     \/ pulls_x' = pulls_x + 1 /\ ~Rejected(prev_item_x, item_x_opt')
       /\ pc = "err" => (pulls_x' = pulls_x /\ pulls_y' = pulls_y /\ result' = result)]_vars

\* an error raised by the X half of a tied step while Y still has a head
\* group and more elements behind it
C6_Witness ==
    /\ pc = "err" /\ result = Some(Err)
    /\ arms # << >> /\ arms[Len(arms)] = "tie"
    /\ IsSome(prev_item_x) /\ IsSome(item_x_opt)
    /\ Unwrap(prev_item_x)[1] > Unwrap(item_x_opt)[1]
    /\ IsSome(item_y_opt)
    /\ (itc_y.source # << >> \/ IsSome(itc_y.prev_value))

\* C7: mann_whitney_u_x() + mann_whitney_u_y() = n_x() * n_y().
C7_UComplementarity ==
    Constructed =>
        mann_whitney_u_x(RS) + mann_whitney_u_y(RS) = AsF64(RankSum_n_x(RS) * RankSum_n_y(RS))

C7_Witness ==
    /\ Constructed /\ RankSum_n_x(RS) >= 2 /\ RankSum_n_y(RS) >= 2
    /\ mann_whitney_u_x(RS) > 0 /\ mann_whitney_u_y(RS) > 0
    /\ mann_whitney_u_x(RS) # mann_whitney_u_y(RS)

\* C8: both U values lie in 0..n_x*n_y, mann_whitney_u() is the smaller one
\* and lies in 0..n_x*n_y/2.
C8_UBounds ==
    Constructed =>
        LET nxny == AsF64(RankSum_n_x(RS) * RankSum_n_y(RS))
            ux == mann_whitney_u_x(RS)
            uy == mann_whitney_u_y(RS)
            u == mann_whitney_u(RS)
        IN  /\ 0 <= ux /\ ux <= nxny
            /\ 0 <= uy /\ uy <= nxny
            /\ u \in {ux, uy} /\ u <= ux /\ u <= uy
            /\ 0 <= u /\ 2 * u <= nxny

\* a construction where U for Y is at its lower bound 0 and U for X at n_x*n_y
C8_Witness ==
    /\ Constructed /\ RankSum_n_x(RS) >= 2 /\ RankSum_n_y(RS) >= 2
    /\ mann_whitney_u_y(RS) = 0
    /\ mann_whitney_u_x(RS) = AsF64(RankSum_n_x(RS) * RankSum_n_y(RS))
    /\ mann_whitney_u(RS) = 0

\* C9 (as stated): with n_x = 0 or n_y = 0, z(), p(alt_hyp) and
\* test(alt_hyp, alpha) return an error value.
C9_EmptySampleIsError ==
    (Constructed /\ (RS.n_x = 0 \/ RS.n_y = 0) /\ IsSome(ret)
        /\ Unwrap(ret).op \in {"z", "p", "test"}) => Unwrap(ret).is_err

\* the tie-corrected variance of the claim is <= 0 (n_x, n_y > 0):
\* n_x n_y (N+1)/12 - n_x n_y ties/(12 N (N-1)) <= 0
Var0NotPositive(self) ==
    LET N == self.n_x + self.n_y
    IN  (N + 1) * N * (N - 1) <= self.ties_sum_prod

\* C10 (as stated): with n_x > 0 and n_y > 0, z() is an error exactly when
\* Var0 <= 0 and otherwise a finite number; never a non-finite success.
C10_ZErrorIffVarianceNotPositive ==
    (Constructed /\ RS.n_x > 0 /\ RS.n_y > 0 /\ IsSome(ret) /\ Unwrap(ret).op = "z") =>
        /\ Unwrap(ret).is_err <=> Var0NotPositive(RS)
        /\ ~Unwrap(ret).is_err => Unwrap(ret).val.cls = "fin"


(* C11: with x = [2,2,2,2,2], y = [2,2,2,3,3] z() fails with an error, and   *)
(* with x = [2,2,2,2] or x = [2,2] and the same y it returns a finite value. *)
C11_TooManyTiesIsError ==
    (pc = "done" /\ IsSome(ret) /\ Unwrap(ret).op = "z") =>
        /\ (<<in_x, in_y>> = <<S52, Smx>> => Unwrap(ret).is_err)
        /\ (<<in_x, in_y>> \in {<<S42, Smx>>, <<S22, Smx>>} =>
               ~Unwrap(ret).is_err /\ Unwrap(ret).val.cls = "fin")

\* alpha (in percent) strictly inside (0, 1)
AlphaInside(alpha) == 0 < alpha /\ alpha < 100

(* C12: test(alt_hyp, alpha) is an error for every alpha outside (0,1),      *)
(* 0 and 1 included, and a result for alpha inside (0,1) when z() is finite. *)
C12_AlphaOutsideIsError ==
    (pc = "done" /\ IsSome(ret) /\ Unwrap(ret).op = "test") =>
        LET alpha == Unwrap(ret).args[2]
        IN  /\ (~AlphaInside(alpha) => Unwrap(ret).is_err)
            /\ (AlphaInside(alpha) /\ z(Unwrap(result)).cls = "fin" => ~Unwrap(ret).is_err)

(* C13: a test(alt_hyp, alpha) that returns a result returns p = p(alt_hyp), *)
(* the alpha and alt_hyp passed, and accepted = Alt(alt_hyp) iff p < alpha,  *)
(* Null otherwise (so Null for a p that is NaN).                             *)
C13_AcceptedAltIffPLessAlpha ==
    (pc = "done" /\ IsSome(ret) /\ Unwrap(ret).op = "test" /\ ~Unwrap(ret).is_err) =>
        LET alt_hyp == Unwrap(ret).args[1]
            alpha == Unwrap(ret).args[2]
            res == Unwrap(ret).val
        IN  /\ res.p = RankSum_p(Unwrap(result), alt_hyp)
            /\ res.alpha = alpha
            /\ res.alt_hyp = alt_hyp
            /\ res.accepted =
                  (IF PLt(res.p, alpha) THEN <<"Alt", alt_hyp>> ELSE <<"Null">>)

\* the cases in which z() has no value to give: its f64 is NaN or infinite
ZFails(self) == z(self).cls # "fin"

(* C14: failures are returned as error values through the call chain: p is   *)
(* an error exactly when z is, test is an error exactly when alpha is        *)
(* outside (0,1) or z is an error, and no failure is a panic or a NaN        *)
(* handed back as an ordinary value.                                         *)
C14_FailuresAreValues ==
    /\ pc # "panic"
    /\ (pc = "done" /\ IsSome(ret)) =>
          LET r == Unwrap(ret)
              self == Unwrap(result)
          IN  /\ (r.op = "z" => (r.is_err <=> ZFails(self)))
              /\ (r.op = "p" => (r.is_err <=> ZFails(self)))
              /\ (r.op = "test" =>
                     (r.is_err <=> (~AlphaInside(r.args[2]) \/ ZFails(self))))

(* C15: iter_with_counts yields the run-length encoding of its input, sorted *)
(* or not: every count is >= 1, adjacent pairs carry different values, the   *)
(* pairs yielded so far expand to a prefix of the input, and None comes      *)
(* exactly when the pairs expand to the whole input (so equal values that    *)
(* are not neighbours stay in separate groups).                              *)
C15_RunLengthEncoding ==
    pc \in {"iter", "iter_end"} =>
        /\ \A i \in 1..Len(out) : out[i][2] >= 1
        /\ \A i \in 1..(Len(out) - 1) : out[i][1] # out[i + 1][1]
        /\ Len(Expand(out)) <= Len(in_x)
        /\ Expand(out) = SubSeq(in_x, 1, Len(Expand(out)))
        /\ (pc = "iter_end" => Expand(out) = in_x /\ item_x_opt = None)

\* an unsorted input whose first and last runs carry the same value
C15_Witness ==
    /\ pc = "iter_end"
    /\ Len(out) = 3
    /\ out[1][1] = out[3][1]
    /\ out[1][2] = 2
    /\ out[2][1] < out[1][1]

BookData == in_x = BookX /\ in_y = BookY

(* C16: for the book data the construction succeeds with n_x = 10, n_y = 5,  *)
(* w() = 30 and mann_whitney_u_x() = r_w() = 35.                             *)
C16_BookData ==
    BookData =>
        /\ pc \notin {"err", "panic"}
        /\ pc = "done" =>
              /\ ~("error" \in DOMAIN Unwrap(result))
              /\ RankSum_n_x(Unwrap(result)) = 10
              /\ RankSum_n_y(Unwrap(result)) = 5
              /\ RankSum_w(Unwrap(result)) = AsF64(30)
              /\ mann_whitney_u_x(Unwrap(result)) = AsF64(35)
              /\ r_w(Unwrap(result)) = AsF64(35)
              /\ (IsSome(ret) /\ Unwrap(ret).op \in {"r_w", "mann_whitney_u_x"} =>
                     ~Unwrap(ret).is_err /\ Unwrap(ret).val = AsF64(35))
              /\ (IsSome(ret) /\ Unwrap(ret).op = "w" =>
                     ~Unwrap(ret).is_err /\ Unwrap(ret).val = AsF64(30))

C16_Witness ==
    /\ BookData
    /\ pc = "done"
    /\ Len(arms) = 16
    /\ IsSome(ret)
    /\ Unwrap(ret).op = "r_w"

\* a <= b and a < b for two finite f64 held as [sgn, num, den]
ZLe(a, b) == a.sgn * a.num * b.den <= b.sgn * b.num * a.den
ZLt(a, b) == a.sgn * a.num * b.den < b.sgn * b.num * a.den

\* a RankSum of the shifted pair is there, next to the one of the pair before
ShiftedPair(side) ==
    /\ pc = "done"
    /\ IsSome(memo)
    /\ Unwrap(memo).op = "from_iter"
    /\ Unwrap(memo).args[1] = side
    /\ z(Unwrap(memo).val).cls = "fin"
    /\ z(Unwrap(result)).cls = "fin"

(* C17 (as stated): a larger offset on Y strictly increases |z| and moves z  *)
(* towards Lt; a larger offset on X strictly increases |z| and moves z       *)
(* towards Gt.                                                               *)
C17_ShiftStrictlyIncreasesAbsZ ==
    LET z1 == z(Unwrap(memo).val)
        z2 == z(Unwrap(result))
    IN  /\ ShiftedPair("y") => ZLt(FAbs(z1), FAbs(z2)) /\ ZLt(z2, z1)
        /\ ShiftedPair("x") => ZLt(FAbs(z1), FAbs(z2)) /\ ZLt(z1, z2)

(* C17 (amended): a larger offset on Y never decreases w and never moves     *)
(* the sign of z towards Gt, and when neither pair has a repeated value z    *)
(* never increases; with the offset on X the same holds in the opposite      *)
(* direction.                                                                *)
C17_ShiftNeverMovesZBack ==
    LET r1 == Unwrap(memo).val
        r2 == Unwrap(result)
        z1 == z(r1)
        z2 == z(r2)
        tie_free == r1.ties_sum_prod = 0 /\ r2.ties_sum_prod = 0
    IN  /\ ShiftedPair("y") =>
              /\ RankSum_w(r2) >= RankSum_w(r1)
              /\ z2.sgn <= z1.sgn
              /\ (tie_free => ZLe(z2, z1))
        /\ ShiftedPair("x") =>
              /\ RankSum_w(r2) <= RankSum_w(r1)
              /\ z2.sgn >= z1.sgn
              /\ (tie_free => ZLe(z1, z2))

\* Y is shifted across X: w grows and z changes sign
C17_Witness ==
    /\ ShiftedPair("y")
    /\ RankSum_w(Unwrap(result)) > RankSum_w(Unwrap(memo).val)
    /\ z(Unwrap(memo).val).sgn = 1
    /\ z(Unwrap(result)).sgn = -1
    /\ Unwrap(result).ties_sum_prod = 0

\* number of groups of equal neighbours of a sequence of values
Runs(s) == Cardinality({i \in 1..Len(s) : i = 1 \/ s[i] # s[i - 1]})

\* groups of an input, and groups a cursor has not yet handed to rank_item
GroupsOf(inp) == IF mode = "raw" THEN Runs(inp) ELSE Len(inp)
GroupsLeft(it, item_opt) ==
    (IF IsSome(item_opt) THEN 1 ELSE 0)
    + (IF it.kind = "raw"
       THEN Runs((IF IsSome(it.prev_value) THEN <<Unwrap(it.prev_value)>> ELSE << >>)
                 \o it.source)
       ELSE Len(it.source))
Left == GroupsLeft(itc_x, item_x_opt) + GroupsLeft(itc_y, item_y_opt)
RankingArms == Cardinality({i \in 1..Len(arms) : arms[i] # "break"})

(* C18: the merge loop terminates: every iteration that ranks consumes at    *)
(* least one group, there are at most (groups of X + groups of Y) of them,   *)
(* and the loop is left only with both cursors exhausted or with the         *)
(* ordering error.                                                           *)
C18_MergeTerminates ==
    /\ [][(pc = "loop" /\ arms' # arms /\ arms'[Len(arms')] # "break") => Left' < Left]_vars
    /\ [](RankingArms + Left <= GroupsOf(in_x) + GroupsOf(in_y))
    /\ [](pc \in {"done", "panic"} =>
             ~IsSome(item_x_opt) /\ ~IsSome(item_y_opt) /\ Left = 0)
    /\ [](pc = "err" => result = Some(Err))
    /\ <>(pc \in {"done", "err", "panic"})

\* a finished merge whose tied arm consumed a group of each side at once
C18_Witness ==
    /\ pc = "done"
    /\ GroupsOf(in_x) + GroupsOf(in_y) >= 3
    /\ RankingArms = GroupsOf(in_x) + GroupsOf(in_y) - 1

(* C19: two constructor calls on independent sample pairs whose steps are    *)
(* interleaved in any order each end with the result (RankSum or ordering    *)
(* error) of the same call run alone.                                        *)
C19_InterleavedCallsAreSolo ==
    LET solo1 == merge_run(merge_entry(mode, in_x, in_y))
        solo2 == merge_run(merge_entry("raw", inv2.args[1], inv2.args[2]))
    IN  /\ pc \notin {"start", "loop"} => pc = solo1.pc /\ result = solo1.result
        /\ inv2.s.pc \notin {"start", "loop"} =>
              inv2.s.pc = solo2.pc /\ inv2.s.result = solo2.result

\* the first call is done with ties ranked while the second is in its loop
C19_Witness ==
    /\ pc = "done"
    /\ ties_sum_prod > 0
    /\ inv2.s.pc = "loop"
    /\ inv2.s.ties_sum_prod > 0
    /\ inv2.s.prev_rank # prev_rank

(* C20: a constructed RankSum never changes: no accessor call changes n_x,   *)
(* n_y, w or ties_sum_prod, and a call returns what the same call with the   *)
(* same arguments returned before, whatever was called in between.           *)
C20_RankSumIsImmutable ==
    /\ [][pc = "done" => pc' = "done" /\ result' = result]_vars
    /\ [](pc = "done" /\ IsSome(ret) /\ IsSome(memo) =>
             (Unwrap(memo).op = Unwrap(ret).op /\ Unwrap(memo).args = Unwrap(ret).args
                 => Unwrap(memo) = Unwrap(ret)))

\* z() returned twice on a RankSum with ties, the first value kept by the caller
C20_Witness ==
    /\ pc = "done"
    /\ IsSome(ret)
    /\ IsSome(memo)
    /\ Unwrap(ret).op = "z"
    /\ Unwrap(memo).op = "z"
    /\ Unwrap(result).ties_sum_prod > 0

\* both cursors have a head group and the two values are equal
HeadsTied ==
    /\ pc = "loop"
    /\ IsSome(item_x_opt) /\ IsSome(item_y_opt)
    /\ Unwrap(item_x_opt)[1] = Unwrap(item_y_opt)[1]

(* C21: with equal head values one loop step takes both groups as one        *)
(* cohort: every item gets the midrank prev_rank + (c_x + c_y + 1)/2,        *)
(* rank_sum_x grows by c_x times it and rank_sum_y by c_y times it, both     *)
(* cursors advance and prev_rank advances by c_x + c_y once.                 *)
C21_TiedCohortStep ==
    [][HeadsTied =>
          LET c_x == Unwrap(item_x_opt)[2]
              c_y == Unwrap(item_y_opt)[2]
              midrank == prev_rank + FHalf(AsF64(c_x + c_y + 1))
          IN  /\ arms' = Append(arms, "tie")
              /\ pulls_x' = pulls_x + 1
              /\ n_x' = n_x + c_x
              /\ (pc' = "loop" =>
                     /\ pulls_y' = pulls_y + 1
                     /\ n_y' = n_y + c_y
                     /\ rank_sum_x' = rank_sum_x + FMul(AsF64(c_x), midrank)
                     /\ rank_sum_y' = rank_sum_y + FMul(AsF64(c_y), midrank)
                     /\ prev_rank' = prev_rank + AsF64(c_x + c_y))]_vars

\* a tied step has been taken on a cohort of at least three items
C21_Witness ==
    /\ pc = "loop"
    /\ arms # << >>
    /\ arms[Len(arms)] = "tie"
    /\ rank_sum_x > 0
    /\ rank_sum_y > rank_sum_x
    /\ prev_rank >= AsF64(3)

\* the values of the groups of an input, in order
RECURSIVE RunHeads(_)
RunHeads(q) ==
    IF q = << >> THEN << >>
    ELSE IF Len(q) >= 2 /\ q[1] = q[2] THEN RunHeads(Tail(q))
    ELSE <<Head(q)>> \o RunHeads(Tail(q))
GroupValues(inp) == IF mode = "raw" THEN RunHeads(inp) ELSE [i \in 1..Len(inp) |-> inp[i][1]]

\* the value of the cohort ranked by the i-th arm taken
XArms(i) == Cardinality({k \in 1..i : arms[k] \in {"x_only", "x_less", "tie"}})
YArms(i) == Cardinality({k \in 1..i : arms[k] \in {"y_only", "y_less", "tie"}})
CohortValue(i) ==
    IF arms[i] \in {"x_only", "x_less", "tie"}
    THEN GroupValues(in_x)[XArms(i)]
    ELSE GroupValues(in_y)[YArms(i)]

HeadsDiffer ==
    /\ pc = "loop"
    /\ IsSome(item_x_opt) /\ IsSome(item_y_opt)
    /\ Unwrap(item_x_opt)[1] # Unwrap(item_y_opt)[1]

(* C22: on valid input a step from heads with different values consumes the  *)
(* group with the smaller value alone and leaves the other cursor where it   *)
(* is; the values of the cohorts consumed in a run increase strictly, and    *)
(* every rank handed out lies in 1..n_x+n_y.                                 *)
C22_SmallerHeadAlone ==
    /\ [][(ValidInput /\ HeadsDiffer) =>
             IF Unwrap(item_x_opt)[1] < Unwrap(item_y_opt)[1]
             THEN /\ arms' = Append(arms, "x_less")
                  /\ n_x' = n_x + Unwrap(item_x_opt)[2]
                  /\ pulls_x' = pulls_x + 1
                  /\ UNCHANGED <<itc_y, item_y_opt, prev_item_y, n_y, rank_sum_y, pulls_y>>
             ELSE /\ arms' = Append(arms, "y_less")
                  /\ n_y' = n_y + Unwrap(item_y_opt)[2]
                  /\ pulls_y' = pulls_y + 1
                  /\ UNCHANGED <<itc_x, item_x_opt, prev_item_x, n_x, rank_sum_x, pulls_x>>]_vars
    /\ [][(ValidInput /\ pc = "loop" /\ pc' = "loop") =>
             /\ rank_sum_x' - rank_sum_x >= AsF64(n_x' - n_x)
             /\ rank_sum_x' - rank_sum_x <= AsF64(n_x' - n_x) * TotalN
             /\ rank_sum_y' - rank_sum_y >= AsF64(n_y' - n_y)
             /\ rank_sum_y' - rank_sum_y <= AsF64(n_y' - n_y) * TotalN
             /\ prev_rank' <= AsF64(TotalN)]_vars
    /\ [](ValidInput /\ pc \in {"loop", "done"} =>
             \A i \in 1..(RankingArms - 1) : CohortValue(i) < CohortValue(i + 1))

\* a finished run that took a smaller head of each side alone and a tied cohort
C22_Witness ==
    /\ pc = "done"
    /\ ValidInput
    /\ \E i, j, k \in 1..Len(arms) :
          arms[i] = "x_less" /\ arms[j] = "y_less" /\ arms[k] = "tie"

\* the state of the two-cursor walk once the heads have been fetched
Walk ==
    IF IsSome(item_x_opt) /\ IsSome(item_y_opt) THEN "both_active"
    ELSE IF IsSome(item_x_opt) THEN "only_x_left"
    ELSE IF IsSome(item_y_opt) THEN "only_y_left"
    ELSE "both_exhausted"

(* C23: the walk only moves forward: both-active may go to any state,        *)
(* only-X-left (only-Y-left) stays or goes to both-exhausted, taking one     *)
(* group of that side per step; an exhausted cursor never becomes active     *)
(* again, and success is returned from both-exhausted only.                  *)
C23_WalkMovesForward ==
    [][pc = "loop" =>
          /\ (Walk = "only_x_left" =>
                 /\ Walk' \in {"only_x_left", "both_exhausted"}
                 /\ arms' = Append(arms, "x_only")
                 /\ GroupsLeft(itc_x', item_x_opt') = GroupsLeft(itc_x, item_x_opt) - 1)
          /\ (Walk = "only_y_left" =>
                 /\ Walk' \in {"only_y_left", "both_exhausted"}
                 /\ arms' = Append(arms, "y_only")
                 /\ GroupsLeft(itc_y', item_y_opt') = GroupsLeft(itc_y, item_y_opt) - 1)
          /\ (Walk = "both_exhausted" => Walk' = "both_exhausted" /\ pc' \in {"done", "panic"})
          /\ (~IsSome(item_x_opt) => ~IsSome(item_x_opt') /\ itc_x' = itc_x)
          /\ (~IsSome(item_y_opt) => ~IsSome(item_y_opt') /\ itc_y' = itc_y)
          /\ (pc' = "done" => Walk = "both_exhausted")]_vars

\* a run that went both-active, only-X-left, both-exhausted and returned
C23_Witness ==
    /\ pc = "done"
    /\ \E i \in 1..(Len(arms) - 2) :
          /\ arms[i] \in {"x_less", "y_less", "tie"}
          /\ arms[i + 1] = "x_only"
          /\ arms[i + 2] = "x_only"

(* C24: in a successful construction each iterator is read forward and each  *)
(* group is fetched and ranked once: next() is called g + 1 times on an      *)
(* iterator with g groups, and never again once it has returned None.        *)
C24_EachGroupFetchedOnce ==
    /\ [](Constructed =>
             /\ pulls_x = GroupsOf(in_x) + 1
             /\ pulls_y = GroupsOf(in_y) + 1
             /\ XArms(Len(arms)) = GroupsOf(in_x)
             /\ YArms(Len(arms)) = GroupsOf(in_y))
    /\ [][pc = "loop" =>
             /\ (pulls_x' # pulls_x =>
                    /\ IsSome(item_x_opt)
                    /\ pulls_x' = pulls_x + 1
                    /\ GroupsLeft(itc_x', item_x_opt') = GroupsLeft(itc_x, item_x_opt) - 1)
             /\ (pulls_y' # pulls_y =>
                    /\ IsSome(item_y_opt)
                    /\ pulls_y' = pulls_y + 1
                    /\ GroupsLeft(itc_y', item_y_opt') = GroupsLeft(itc_y, item_y_opt) - 1)]_vars

\* a construction from raw samples with repeated values on both sides
C24_Witness ==
    /\ Constructed
    /\ mode = "raw"
    /\ pulls_x = 3
    /\ pulls_y = 2
    /\ Len(in_x) + Len(in_y) > 3

\* pairs (i, j) with a[i] < b[j], and pairs with a[i] = b[j]
PairsLess(a, b) == Cardinality({pr \in (DOMAIN a) \X (DOMAIN b) : a[pr[1]] < b[pr[2]]})
PairsTied(a, b) == Cardinality({pr \in (DOMAIN a) \X (DOMAIN b) : a[pr[1]] = b[pr[2]]})

(* C25: on valid input mann_whitney_u_y() is the number of pairs with        *)
(* x_i < y_j plus half the number of pairs with x_i = y_j, and               *)
(* mann_whitney_u_x() the number of pairs with y_j < x_i plus half the       *)
(* number of tied pairs (both sides held doubled).                           *)
C25_UCountsPairs ==
    (ValidInput /\ pc \notin {"start", "loop"}) =>
        /\ Constructed
        /\ mann_whitney_u_y(RS) = 2 * PairsLess(SampleX, SampleY) + PairsTied(SampleX, SampleY)
        /\ mann_whitney_u_x(RS) = 2 * PairsLess(SampleY, SampleX) + PairsTied(SampleX, SampleY)
        /\ (IsSome(ret) /\ Unwrap(ret).op = "mann_whitney_u_y" =>
               Unwrap(ret).val = 2 * PairsLess(SampleX, SampleY) + PairsTied(SampleX, SampleY))
        /\ (IsSome(ret) /\ Unwrap(ret).op = "mann_whitney_u_x" =>
               Unwrap(ret).val = 2 * PairsLess(SampleY, SampleX) + PairsTied(SampleX, SampleY))

\* mann_whitney_u_y() returned on samples with pairs of all three kinds
C25_Witness ==
    /\ Constructed
    /\ IsSome(ret)
    /\ Unwrap(ret).op = "mann_whitney_u_y"
    /\ PairsLess(SampleX, SampleY) > 0
    /\ PairsLess(SampleY, SampleX) > 0
    /\ PairsTied(SampleX, SampleY) > 0

(* C26: at the start of every iteration of the merge loop prev_rank equals   *)
(* n_x + n_y and rank_sum_x + rank_sum_y equals prev_rank (prev_rank + 1)/2. *)
C26_LoopInvariant ==
    pc = "loop" =>
        /\ prev_rank = AsF64(n_x + n_y)
        /\ rank_sum_x + rank_sum_y = FHalf(FMul(prev_rank, prev_rank + AsF64(1)))

\* an iteration is about to start after a tied cohort and a single group
C26_Witness ==
    /\ pc = "loop"
    /\ Len(arms) >= 2
    /\ \E i \in 1..Len(arms) : arms[i] = "tie"
    /\ n_x >= 2
    /\ n_y >= 1
    /\ (IsSome(item_x_opt) \/ IsSome(item_y_opt))

(* C27: swapping the samples mirrors the result: with A = RankSum(X, Y) and  *)
(* B = RankSum(Y, X), B.n_x = A.n_y, B.n_y = A.n_x, A.w + B.w = N (N + 1)/2, *)
(* B.mann_whitney_u_x = A.mann_whitney_u_y, B.ties_sum_prod =                *)
(* A.ties_sum_prod and B.mann_whitney_u = A.mann_whitney_u.                  *)
C27_SwapMirrors ==
    (IsSome(memo) /\ Unwrap(memo).op = "from_iter" /\ Unwrap(memo).args[1] = "swap"
       /\ pc \notin {"start", "loop"}) =>
        LET A == Unwrap(memo).val
            B == Unwrap(result)
            N == A.n_x + A.n_y
        IN  /\ Constructed
            /\ RankSum_n_x(B) = RankSum_n_y(A)
            /\ RankSum_n_y(B) = RankSum_n_x(A)
            /\ RankSum_w(A) + RankSum_w(B) = FHalf(FMul(AsF64(N), AsF64(N + 1)))
            /\ mann_whitney_u_x(B) = mann_whitney_u_y(A)
            /\ mann_whitney_u_y(B) = mann_whitney_u_x(A)
            /\ B.ties_sum_prod = A.ties_sum_prod
            /\ mann_whitney_u(B) = mann_whitney_u(A)

\* both constructions are done on samples of different sizes with a shared value
C27_Witness ==
    /\ IsSome(memo)
    /\ Unwrap(memo).op = "from_iter"
    /\ Unwrap(memo).args[1] = "swap"
    /\ Constructed
    /\ RS.n_x > RS.n_y
    /\ RS.n_y > 0
    /\ PairsTied(in_x, in_y) > 0
    /\ mann_whitney_u_x(RS) # mann_whitney_u_y(RS)

(* C28: a finite z() has the sign opposite to that of w - n_y (n_x+n_y+1)/2: *)
(* z < 0 exactly when mann_whitney_u_y > mann_whitney_u_x, z > 0 exactly     *)
(* when mann_whitney_u_y < mann_whitney_u_x, z = 0 exactly when they are     *)
(* equal.                                                                    *)
C28_SignOfZ ==
    (Constructed /\ IsSome(ret) /\ Unwrap(ret).op = "z" /\ Unwrap(ret).val.cls = "fin") =>
        LET zv == Unwrap(ret).val
            d == RankSum_w(RS) - FHalf(FMul(AsF64(RS.n_y), AsF64(RS.n_x + RS.n_y + 1)))
        IN  /\ zv.sgn = 0 - Sgn(d)
            /\ (zv.sgn < 0 <=> mann_whitney_u_y(RS) > mann_whitney_u_x(RS))
            /\ (zv.sgn > 0 <=> mann_whitney_u_y(RS) < mann_whitney_u_x(RS))
            /\ (zv.sgn = 0 <=> mann_whitney_u_y(RS) = mann_whitney_u_x(RS))

\* z() returned a finite negative value
C28_Witness ==
    /\ Constructed
    /\ IsSome(ret)
    /\ Unwrap(ret).op = "z"
    /\ Unwrap(ret).val.cls = "fin"
    /\ Unwrap(ret).val.sgn = -1
    /\ RS.ties_sum_prod > 0

\* the sign of var0_w as z() computes it, for n_x >= 1 and n_y >= 1
Var0Sign(self) ==
    LET N == self.n_x + self.n_y
    IN  Sgn((N + 1) * N * (N - 1) - self.ties_sum_prod)

DistinctValues ==
    {SampleX[i] : i \in DOMAIN SampleX} \cup {SampleY[i] : i \in DOMAIN SampleY}

(* C29: on valid input with n_x >= 1 and n_y >= 1 the variance Var0 used by  *)
(* z() is never negative, is zero only when all observations are equal, and  *)
(* with at least two distinct values is positive, so that z() is finite.     *)
C29_VarianceSign ==
    (Constructed /\ RS.n_x >= 1 /\ RS.n_y >= 1) =>
        /\ Var0Sign(RS) >= 0
        /\ (Var0Sign(RS) = 0 => Cardinality(DistinctValues) = 1)
        /\ (Cardinality(DistinctValues) >= 2 =>
               Var0Sign(RS) > 0 /\ z(RS).cls = "fin")


\* the count rank_item works with at the current loop step: both heads'
\* counts added when the heads are tied, the smaller head's count otherwise
StepCount ==
    IF IsSome(item_x_opt) /\ IsSome(item_y_opt)
    THEN IF Unwrap(item_x_opt)[1] < Unwrap(item_y_opt)[1] THEN Unwrap(item_x_opt)[2]
         ELSE IF Unwrap(item_y_opt)[1] < Unwrap(item_x_opt)[1] THEN Unwrap(item_y_opt)[2]
         ELSE Unwrap(item_x_opt)[2] + Unwrap(item_y_opt)[2]
    ELSE IF IsSome(item_x_opt) THEN Unwrap(item_x_opt)[2]
    ELSE IF IsSome(item_y_opt) THEN Unwrap(item_y_opt)[2]
    ELSE 1

\* 2 * (N^3 - N) for the combined size N of the two samples
TiesCeiling == 2 * (TotalN * TotalN * TotalN - TotalN)

(* C30: the unsigned arithmetic of the merge stays inside 2 * (N^3 - N),     *)
(* hence below 2^64 whenever 2 * (N^3 - N) < 2^64: groups produced by        *)
(* iter_with_counts reach rank_item with a combined count >= 1, so           *)
(* count - 1 does not go below zero; the product (count - 1) * count *       *)
(* (count + 1), the accumulated ties_sum_prod, and n_x and n_y never exceed  *)
(* that ceiling (n_x and n_y never exceed their sample's size).              *)
C30_NoWrap ==
    /\ n_x <= Len(SampleX)
    /\ n_y <= Len(SampleY)
    /\ n_x + n_y <= TotalN
    /\ ties_sum_prod <= TiesCeiling
    /\ (TotalN >= 2 => TotalN <= TiesCeiling)
    /\ (pc = "loop" /\ mode = "raw") =>
          /\ StepCount >= 1
          /\ (StepCount - 1) * StepCount * (StepCount + 1) <= TiesCeiling
          /\ ties_sum_prod + (StepCount - 1) * StepCount * (StepCount + 1) <= TiesCeiling

\* raw samples of combined size >= 3, all equal: ties_sum_prod ends at the ceiling
C30_Witness ==
    /\ Constructed
    /\ mode = "raw"
    /\ TotalN >= 3
    /\ RS.n_x >= 1 /\ RS.n_y >= 1
    /\ RS.ties_sum_prod = TiesCeiling

====
